---- MODULE Spec2Model ----
(***************************************************************************)
(* Model of Veles::Workflow (libVeles/src/workflow.cc): the ordered unit   *)
(* sequence units_, the accessors GetUnit and MaxUnitSize, and the static  *)
(* aligned float allocator mallocf.                                        *)
(*                                                                         *)
(* size_t is modelled as an unsigned integer of SizeBits bits; pointers    *)
(* are addresses of the same width, 0 being the null pointer.              *)
(***************************************************************************)
EXTENDS Integers, Sequences, FiniteSets, TLC

VARIABLES units_, heap, last

vars == <<units_, heap, last>>

----------------------------------------------------------------------------
(* Bounds of the model *)

\* unit objects that exist outside the workflow (shared handles 1..NumHandles)
NumHandles == 2
\* largest InputCount / OutputCount a unit reports
MaxCount == 2
\* longest unit sequence built
MaxLen == 3
\* width of size_t and of a pointer, in bits
SizeBits == 8

----------------------------------------------------------------------------
(* Program constants *)

\* sizeof(float)
SizeofFloat == 4
\* sizeof(void*), the granule posix_memalign requires of an alignment
SizeofPtr == 8
\* the alignment mallocf asks for
Alignment == 64
\* nullptr
Null == 0
\* errno values posix_memalign may report
EINVAL == 22
ENOMEM == 12

SizeModulus == 2 ^ SizeBits
SizeMax == SizeModulus - 1

Handles == 1 .. NumHandles
Counts == 0 .. MaxCount

\* the Unit interface: two observable size_t attributes
UnitObjects == [InputCount : Counts, OutputCount : Counts]

\* Handles are interchangeable names of the units, so the units are numbered
\* in non-decreasing order of (InputCount, OutputCount); a sequence may hold
\* the handles in any order and any number of times.
UnitLeq(u, v) ==
  \/ u.InputCount < v.InputCount
  \/ u.InputCount = v.InputCount /\ u.OutputCount <= v.OutputCount

Heaps == {h \in [Handles -> UnitObjects] :
            \A i, j \in Handles : i < j => UnitLeq(h[i], h[j])}

\* the heaps whose units all report the same sizes
UniformHeaps == {h \in Heaps : \A i, j \in Handles : h[i] = h[j]}

Max(a, b) == IF a >= b THEN a ELSE b

\* the record left by the most recent call
Call(op, arg, kind, value, reads, status, usable) ==
  [op |-> op, arg |-> arg, kind |-> kind, value |-> value, reads |-> reads,
   status |-> status, usable |-> usable]

NoCall == Call("none", 0, "none", 0, <<>>, 0, 0)

----------------------------------------------------------------------------
(* Workflow *)

\* size_t UnitCount() const noexcept { return units_.size(); }
UnitCount == Len(units_)

\* std::shared_ptr<Unit> Workflow::GetUnit(size_t index) const, with the
\* off-by-one guard `index > UnitCount()`: units_[UnitCount()] is read
GetUnitLateGuard(index) ==
  IF index > UnitCount
    THEN [kind |-> "out_of_range", value |-> Null, reads |-> <<>>]
    ELSE [kind |-> "ok",
          value |-> IF index < UnitCount THEN units_[index + 1] ELSE Null,
          reads |-> <<index>>]

\* GetUnit returning units_[UnitCount() - 1 - index] (indexing from the back)
GetUnitFromBack(index) ==
  IF index >= UnitCount
    THEN [kind |-> "out_of_range", value |-> Null, reads |-> <<>>]
    ELSE [kind |-> "ok", value |-> units_[UnitCount - index],
          reads |-> <<UnitCount - 1 - index>>]

\* std::shared_ptr<Unit> Workflow::GetUnit(size_t index) const
\* reads: the 0-based positions of units_ the call accessed
GetUnit(index) ==
  IF index >= UnitCount
    THEN [kind |-> "out_of_range", value |-> Null, reads |-> <<>>]
    ELSE [kind |-> "ok", value |-> units_[index + 1], reads |-> <<index>>]

\* the lambda max_func of MaxUnitSize
max_func(curr, unit) == Max(curr, heap[unit].OutputCount)

\* std::accumulate(first, last, init, max_func): a left fold
RECURSIVE accumulate(_, _)
accumulate(us, init) ==
  IF us = <<>> THEN init
  ELSE accumulate(Tail(us), max_func(init, Head(us)))

\* MaxUnitSize seeded with units_.back()->InputCount()
MaxUnitSizeBackSeed ==
  [kind |-> "ok",
   value |-> accumulate(units_,
               IF units_ # <<>> THEN heap[units_[Len(units_)]].InputCount ELSE 0)]

\* MaxUnitSize without the !units_.empty() test: front() of an empty vector
MaxUnitSizeNoEmptyTest ==
  IF units_ = <<>>
    THEN [kind |-> "undefined", value |-> 0]
    ELSE [kind |-> "ok", value |-> accumulate(units_, heap[Head(units_)].InputCount)]

\* MaxUnitSize folding over all units but the last (end() - 1)
MaxUnitSizeSkipLast ==
  [kind |-> "ok",
   value |-> IF units_ = <<>> THEN 0
             ELSE accumulate(SubSeq(units_, 1, Len(units_) - 1),
                             heap[Head(units_)].InputCount)]

\* MaxUnitSize seeded with 0 whatever the sequence holds
MaxUnitSizeZeroSeed ==
  [kind |-> "ok", value |-> accumulate(units_, 0)]

\* size_t Workflow::MaxUnitSize() const noexcept
MaxUnitSize ==
  [kind |-> "ok",
   value |-> accumulate(units_,
               IF units_ # <<>> THEN heap[Head(units_)].InputCount ELSE 0)]

----------------------------------------------------------------------------
(* Aligned allocation *)

IsPowerOfTwo(n) == \E k \in 0 .. SizeBits : n = 2 ^ k

\* values the uninitialised local `void *ptr` may hold before the call
Uninitialised == {Null, Alignment, SizeMax}

\* int posix_memalign(void **memptr, size_t alignment, size_t size):
\* the outcomes POSIX allows, memptr holding `ptr` on entry
posix_memalign(ptr, alignment, size) ==
  IF ~IsPowerOfTwo(alignment) \/ alignment % SizeofPtr # 0
    THEN {[status |-> EINVAL, ptr |-> p] : p \in {ptr, Null}}
    ELSE {[status |-> ENOMEM, ptr |-> p] : p \in {ptr, Null}}
         \cup {[status |-> 0, ptr |-> a] :
                 a \in {b \in {k * alignment : k \in 1 .. (SizeMax \div alignment)} :
                          b + size <= SizeModulus}}
         \cup (IF size = 0 THEN {[status |-> 0, ptr |-> Null]} ELSE {})

\* mallocf asking for half the alignment
mallocfHalfAlignment(length) ==
  UNION {{[status |-> o.status,
           value |-> IF o.status = 0 THEN o.ptr ELSE Null,
           usable |-> IF o.status = 0 /\ o.ptr # Null
                        THEN (length * SizeofFloat) % SizeModulus ELSE 0] :
            o \in posix_memalign(ptr, Alignment \div 2, (length * SizeofFloat) % SizeModulus)} :
         ptr \in Uninitialised}

\* mallocf returning ptr whatever the status
mallocfNoStatusTest(length) ==
  UNION {{[status |-> o.status,
           value |-> o.ptr,
           usable |-> IF o.status = 0 /\ o.ptr # Null
                        THEN (length * SizeofFloat) % SizeModulus ELSE 0] :
            o \in posix_memalign(ptr, Alignment, (length * SizeofFloat) % SizeModulus)} :
         ptr \in Uninitialised}

\* float* Workflow::mallocf(size_t length): the set of possible results.
\* usable: the bytes the returned block is guaranteed to hold
mallocf(length) ==
  UNION {{[status |-> o.status,
           value |-> IF o.status = 0 THEN o.ptr ELSE Null,
           usable |-> IF o.status = 0 /\ o.ptr # Null
                        THEN (length * SizeofFloat) % SizeModulus ELSE 0] :
            o \in posix_memalign(ptr, Alignment, (length * SizeofFloat) % SizeModulus)} :
         ptr \in Uninitialised}

----------------------------------------------------------------------------
(* Inputs *)

\* indices passed to GetUnit: every valid one, and invalid ones up to SIZE_MAX
Indices == (0 .. MaxLen + 1) \cup {SizeMax}

\* lengths passed to mallocf, around the points where length * 4 wraps
Lengths == {0, 1, Alignment \div SizeofFloat,
            SizeModulus \div SizeofFloat - 1, SizeModulus \div SizeofFloat,
            SizeModulus \div SizeofFloat + 1, SizeMax}

----------------------------------------------------------------------------
(* State machine *)

\* a default-constructed workflow; the units exist outside it
Init ==
  /\ units_ = <<>>
  /\ heap \in Heaps
  /\ last = NoCall

\* attaching a unit at the end of the sequence
AddUnit ==
  /\ Len(units_) < MaxLen
  /\ \E unit \in Handles :
       /\ units_' = Append(units_, unit)
       /\ last' = Call("AddUnit", unit, "ok", 0, <<>>, 0, 0)
  /\ UNCHANGED heap

CallGetUnit ==
  /\ \E index \in Indices :
       LET r == GetUnit(index) IN
         last' = Call("GetUnit", index, r.kind, r.value, r.reads, 0, 0)
  /\ UNCHANGED <<units_, heap>>

\* a MaxUnitSize that consumes the sequence while folding over it
CallMaxUnitSizeDraining ==
  /\ LET r == MaxUnitSize IN
       last' = Call("MaxUnitSize", 0, r.kind, r.value, <<>>, 0, 0)
  /\ units_' = <<>>
  /\ UNCHANGED heap

CallMaxUnitSize ==
  /\ LET r == MaxUnitSize IN
       last' = Call("MaxUnitSize", 0, r.kind, r.value, <<>>, 0, 0)
  /\ UNCHANGED <<units_, heap>>

CallMallocf ==
  /\ \E length \in Lengths :
       \E r \in mallocf(length) :
         last' = Call("mallocf", length, "ok", r.value, <<>>, r.status, r.usable)
  /\ UNCHANGED <<units_, heap>>

\* the workflow: units are attached and queried
Next ==
  \/ AddUnit
  \/ CallGetUnit
  \/ CallMaxUnitSize

Spec == Init /\ [][Next]_vars

\* the allocator called between the operations of a workflow whose units
\* all report the same sizes (mallocf is static and reads no unit)
InitAlloc ==
  /\ units_ = <<>>
  /\ heap \in UniformHeaps
  /\ last = NoCall

NextAlloc ==
  \/ AddUnit
  \/ CallGetUnit
  \/ CallMaxUnitSize
  \/ CallMallocf

SpecAlloc == InitAlloc /\ [][NextAlloc]_vars

TypeOK ==
  /\ units_ \in Seq(Handles)
  /\ Len(units_) <= MaxLen
  /\ heap \in Heaps

----------------------------------------------------------------------------
(* Properties *)

InputCount(i) == heap[units_[i]].InputCount
OutputCount(i) == heap[units_[i]].OutputCount
Positions == 1 .. Len(units_)
SetMax(S) == CHOOSE m \in S : \A x \in S : x <= m

\* C1: for every index i with 0 <= i < UnitCount(), GetUnit(i) succeeds and
\* returns exactly the handle stored at position i of the unit sequence.
GetUnitReturnsIndexedUnit ==
  (last.op = "GetUnit" /\ last.arg < Len(units_)) =>
    /\ last.kind = "ok"
    /\ last.value = units_[last.arg + 1]

\* GetUnit(1) on a sequence of three whose first two handles differ
GetUnitMiddleReached ==
  /\ last.op = "GetUnit" /\ last.arg = 1 /\ last.kind = "ok"
  /\ Len(units_) = 3 /\ units_[1] # units_[2] /\ units_[3] # units_[2]
  /\ last.value = units_[2]

\* C2: for every index i >= UnitCount(), GetUnit(i) signals the out-of-range
\* error and returns no handle, no element of the sequence has been read when
\* the error is raised, and the failed call leaves the sequence as it was.
GetUnitOutOfRange ==
  /\ [](  (last.op = "GetUnit" /\ last.arg >= Len(units_)) =>
            (last.kind = "out_of_range" /\ last.value = Null /\ last.reads = <<>>))
  /\ [][ (last'.op = "GetUnit" /\ last'.kind = "out_of_range") =>
            (units_' = units_ /\ heap' = heap) ]_vars

\* GetUnit(UnitCount()) failed on a sequence of two units
GetUnitBoundaryFailureReached ==
  /\ last.op = "GetUnit" /\ Len(units_) = 2 /\ last.arg = 2
  /\ last.kind = "out_of_range"

\* C3: MaxUnitSize() returns 0 for the empty sequence and otherwise the
\* maximum of the first unit's InputCount and every unit's OutputCount.
MaxUnitSizeIsMaximum ==
  last.op = "MaxUnitSize" =>
    last.value = IF units_ = <<>> THEN 0
                 ELSE SetMax({InputCount(1)} \cup {OutputCount(i) : i \in Positions})

\* three units, the middle one's OutputCount above the first InputCount and
\* above the other OutputCounts, and MaxUnitSize() returned it
MaxUnitSizeMiddleOutputReached ==
  /\ last.op = "MaxUnitSize" /\ Len(units_) = 3
  /\ InputCount(1) > OutputCount(1)
  /\ OutputCount(2) > InputCount(1) /\ OutputCount(2) > OutputCount(3)
  /\ last.value = OutputCount(2)

MallocfHoldsLengthFloats ==
  (last.op = "mallocf" /\ last.value # Null) =>
    last.usable >= last.arg * SizeofFloat

\* C6: when the aligned allocation reports failure mallocf returns null and
\* raises nothing; when it reports success mallocf returns the pointer the
\* allocation produced; it never returns the uninitialised local.
MallocfReportsByReturnValue ==
  last.op = "mallocf" =>
    /\ last.kind = "ok"
    /\ last.status # 0 => last.value = Null
    /\ last.status = 0 =>
         \E ptr \in Uninitialised :
           \E o \in posix_memalign(ptr, Alignment, (last.arg * SizeofFloat) % SizeModulus) :
             o.status = 0 /\ o.ptr = last.value

\* a failed allocation of a non-zero length, reported as null
MallocfFailureReached ==
  /\ last.op = "mallocf" /\ last.status # 0 /\ last.arg = 1 /\ last.value = Null

\* C7: every non-null pointer mallocf returns is a multiple of 64.
MallocfAligned ==
  (last.op = "mallocf" /\ last.value # Null) => last.value % 64 = 0

\* a successful allocation of one float
MallocfSuccessReached ==
  /\ last.op = "mallocf" /\ last.status = 0 /\ last.arg = 1 /\ last.value # Null

MaxUnitSizeMonotone ==
  [][ (Len(units_') = Len(units_) + 1 /\ SubSeq(units_', 1, Len(units_)) = units_) =>
        LET u == heap'[units_'[Len(units_')]]
            old == MaxUnitSize.value
            new == (MaxUnitSize.value)'
        IN /\ new >= old
           /\ units_ # <<>> => new = Max(old, u.OutputCount)
           /\ units_ = <<>> => new = Max(u.InputCount, u.OutputCount) ]_vars

\* a unit was appended whose OutputCount exceeds every size seen before it
AppendRaisedMaximumReached ==
  /\ last.op = "AddUnit" /\ Len(units_) = 2
  /\ OutputCount(2) > InputCount(1) /\ OutputCount(2) > OutputCount(1)
  /\ InputCount(2) < InputCount(1)

====
